---- MODULE Spec2Model ----
(***************************************************************************)
(* Model of BacktestEngine.run (src/src/backtest/engine.py).               *)
(*                                                                         *)
(* One run of the engine is a sequence of steps over pandas objects.       *)
(*   - A float is an exact rational <<num, den>> (den > 0, lowest terms);  *)
(*     NaN is <<0, 0>>, +inf/-inf are <<1, 0>> and <<-1, 0>>.              *)
(*   - An index label is <<kind, v>>: kind 0 is an integer label, kind 1   *)
(*     a timestamp (day number v).  Labels of different kinds never match. *)
(*   - A Series is [index |-> labels, values |-> floats].                  *)
(*   - A DataFrame of prices is [index, columns, rows]; a row is           *)
(*     [date, open, close]; the field of an absent column is not read.     *)
(* pandas arithmetic between two Series aligns them BY LABEL (outer join)  *)
(* unless their indexes are equal; assigning an index of another length    *)
(* raises ValueError; selecting an absent column raises KeyError.          *)
(***************************************************************************)
EXTENDS Integers, Sequences, FiniteSets, TLC

\* ------------------------------------------------------------ bounds
\* Longest price table explored.
MaxBars == 3

\* Longest price table given to a 0/1 strategy.
MaxBinaryBars == 4

\* ------------------------------------------------------------ floats
RECURSIVE GCD(_, _)
GCD(a, b) == IF b = 0 THEN a ELSE GCD(b, a % b)

Abs(x) == IF x < 0 THEN -x ELSE x

Sign(x) == IF x < 0 THEN -1 ELSE IF x > 0 THEN 1 ELSE 0

NaN == <<0, 0>>

IsNaN(q) == q = NaN

\* A fraction n/d in lowest terms; d = 0 gives NaN (0/0) or a signed infinity.
Frac(n, d) ==
    IF d = 0 THEN <<Sign(n), 0>>
    ELSE LET g == GCD(Abs(n), Abs(d))
             s == IF d < 0 THEN -1 ELSE 1
         IN  <<(s * n) \div g, (s * d) \div g>>

Num(n) == <<n, 1>>

Zero == Num(0)

One == Num(1)

IsFinite(q) == q[2] # 0

\* IEEE rules for the non-finite cases that can arise: NaN is absorbing,
\* 0 * inf and inf - inf are NaN.
RAdd(a, b) ==
    IF IsNaN(a) \/ IsNaN(b) THEN NaN
    ELSE IF IsFinite(a) /\ IsFinite(b) THEN Frac(a[1] * b[2] + b[1] * a[2], a[2] * b[2])
    ELSE IF ~IsFinite(a) /\ ~IsFinite(b) THEN (IF a = b THEN a ELSE NaN)
    ELSE IF ~IsFinite(a) THEN a ELSE b

RNeg(a) == <<-a[1], a[2]>>

RSub(a, b) == RAdd(a, RNeg(b))

RMul(a, b) ==
    IF IsNaN(a) \/ IsNaN(b) THEN NaN
    ELSE IF IsFinite(a) /\ IsFinite(b) THEN Frac(a[1] * b[1], a[2] * b[2])
    ELSE <<Sign(a[1]) * Sign(b[1]), 0>>

RDiv(a, b) ==
    IF IsNaN(a) \/ IsNaN(b) THEN NaN
    ELSE IF IsFinite(a) /\ IsFinite(b) THEN Frac(a[1] * b[2], a[2] * b[1])
    ELSE IF IsFinite(a) THEN Zero
    ELSE IF IsFinite(b) THEN <<a[1] * (IF b[1] < 0 THEN -1 ELSE 1), 0>>
    ELSE NaN

\* Comparisons are False whenever an operand is NaN.
RLt(a, b) ==
    /\ ~IsNaN(a) /\ ~IsNaN(b)
    /\ IF IsFinite(a) /\ IsFinite(b) THEN a[1] * b[2] < b[1] * a[2]
       ELSE IF ~IsFinite(a) /\ ~IsFinite(b) THEN a[1] < b[1]
       ELSE IF ~IsFinite(a) THEN a[1] < 0 ELSE b[1] > 0

RLe(a, b) == ~IsNaN(a) /\ ~IsNaN(b) /\ ~RLt(b, a)

\* ------------------------------------------------------------ pandas
IntLabel(i) == <<0, i>>

\* pd.RangeIndex(n): the dense positional axis 0 .. n-1.
RangeIndex(n) == [i \in 1..n |-> IntLabel(i - 1)]

Series(idx, vals) == [index |-> idx, values |-> vals]

Range(s) == {s[i] : i \in DOMAIN s}

\* Series.fillna(scalar)
fillna(s, fill) ==
    Series(s.index, [i \in DOMAIN s.values |-> IF IsNaN(s.values[i]) THEN fill ELSE s.values[i]])

\* Series.fillna(other Series of the same index): positional here
fillna_series(s, other) ==
    Series(s.index, [i \in DOMAIN s.values |->
                        IF IsNaN(s.values[i]) THEN other.values[i] ELSE s.values[i]])

\* Series.shift(1): values move one place down, the first becomes NaN; the
\* index is kept.
shift(s) ==
    Series(s.index, [i \in DOMAIN s.values |-> IF i = 1 THEN NaN ELSE s.values[i - 1]])

\* Series.pct_change(): v[i]/v[i-1] - 1, NaN on the first row.
pct_change(s) ==
    Series(s.index, [i \in DOMAIN s.values |->
                        IF i = 1 THEN NaN
                        ELSE RSub(RDiv(s.values[i], s.values[i - 1]), One)])

\* Series.diff(): v[i] - v[i-1], NaN on the first row.
diff(s) ==
    Series(s.index, [i \in DOMAIN s.values |->
                        IF i = 1 THEN NaN ELSE RSub(s.values[i], s.values[i - 1])])

\* First position of label l in index idx (0 when absent).
RECURSIVE PosOf(_, _, _)
PosOf(idx, l, i) ==
    IF i > Len(idx) THEN 0 ELSE IF idx[i] = l THEN i ELSE PosOf(idx, l, i + 1)

\* left * right for two Series.  Equal indexes: element by element.
\* Otherwise pandas aligns both on the outer join of the labels: every row
\* of the left, then the labels only the right has; a label missing on one
\* side yields NaN.  (The right operand here always has a unique index.)
SeriesMul(left, right) ==
    IF left.index = right.index
    THEN Series(left.index, [i \in DOMAIN left.values |-> RMul(left.values[i], right.values[i])])
    ELSE LET extra == SelectSeq(right.index, LAMBDA l : l \notin Range(left.index))
             both  == [i \in DOMAIN left.index |->
                          LET p == PosOf(right.index, left.index[i], 1)
                          IN  IF p = 0 THEN NaN ELSE RMul(left.values[i], right.values[p])]
         IN  Series(left.index \o extra, both \o [i \in DOMAIN extra |-> NaN])

\* scalar + Series, Series * scalar
ScalarAdd(c, s) == Series(s.index, [i \in DOMAIN s.values |-> RAdd(c, s.values[i])])

ScalarMul(s, c) == Series(s.index, [i \in DOMAIN s.values |-> RMul(s.values[i], c)])

\* Series.cumprod()
RECURSIVE ProdTo(_, _)
ProdTo(vals, i) == IF i = 0 THEN One ELSE RMul(ProdTo(vals, i - 1), vals[i])

cumprod(s) == Series(s.index, [i \in DOMAIN s.values |-> ProdTo(s.values, i)])

\* Series.prod(), Series.sum(), Series.mean()
prod(s) == ProdTo(s.values, Len(s.values))

RECURSIVE SumTo(_, _)
SumTo(vals, i) == IF i = 0 THEN Zero ELSE RAdd(SumTo(vals, i - 1), vals[i])

mean(s) == RDiv(SumTo(s.values, Len(s.values)), Num(Len(s.values)))

\* Series.cummax()
RECURSIVE MaxTo(_, _)
MaxTo(vals, i) ==
    IF i = 1 THEN vals[1]
    ELSE LET m == MaxTo(vals, i - 1) IN IF RLt(m, vals[i]) THEN vals[i] ELSE m

cummax(s) == Series(s.index, [i \in DOMAIN s.values |-> MaxTo(s.values, i)])

\* Series.min()
RECURSIVE MinTo(_, _)
MinTo(vals, i) ==
    IF i = 1 THEN vals[1]
    ELSE LET m == MinTo(vals, i - 1) IN IF RLt(vals[i], m) THEN vals[i] ELSE m

min(s) == MinTo(s.values, Len(s.values))

\* Series / Series with equal indexes, then - 1
SeriesDivMinusOne(a, b) ==
    Series(a.index, [i \in DOMAIN a.values |-> RSub(RDiv(a.values[i], b.values[i]), One)])

\* The square of Series.std(ddof=0): the population variance.
variance(s) ==
    LET m == mean(s)
        sq == [i \in DOMAIN s.values |-> RMul(RSub(m, s.values[i]), RSub(m, s.values[i]))]
    IN  RDiv(SumTo(sq, Len(sq)), Num(Len(sq)))

\* A float known by its sign and its square: sign * sqrt(sq).
Surd(sign, sq) == [sign |-> sign, sq |-> sq]

SurdZero == Surd(0, Zero)

\* ------------------------------------------------------------ inputs
\* The bars a price table is built from (open and close differ, and close
\* both rises and falls along a table).
PriceBars == {[open |-> 2, close |-> 1], [open |-> 1, close |-> 2]}

\* Target positions a strategy may emit: any real, not only 0 and 1.
SignalValues == {Num(-1), Num(0), Num(1), Num(3)}

\* Account sizes the engine is constructed with (the dataclass accepts any
\* float).
InitialCapitals == {Num(-100), Num(100)}

ColumnSets == SUBSET {"date", "open", "close"}

\* Date columns of n rows: integer labels (kind 0) or timestamps (kind 1),
\* ascending from 0, descending, ascending from 1, or with a tie.
DateColumns(n) ==
    {[i \in 1..n |-> <<k, i - 1>>] : k \in {0, 1}} \cup
    {[i \in 1..n |-> <<k, n - i>>] : k \in {0, 1}} \cup
    {[i \in 1..n |-> <<k, i>>] : k \in {0, 1}} \cup
    {[i \in 1..n |-> <<k, (n - i) \div 2>>] : k \in {0, 1}}

SeqsOf(S, n) == [1..n -> S]

\* Tables of 0 .. m rows under a dense index, with any subset of the date,
\* open and close columns (other columns are not read).
TablesUpTo(m) ==
    UNION {
        {[index   |-> RangeIndex(n),
          columns |-> cols,
          rows    |-> [i \in 1..n |->
                         [date  |-> IF "date" \in cols THEN dates[i] ELSE IntLabel(0),
                          open  |-> IF "open" \in cols THEN bars[i].open ELSE 0,
                          close |-> IF "close" \in cols THEN bars[i].close ELSE 0]]] :
            bars \in SeqsOf(PriceBars, n),
            dates \in DateColumns(n),
            cols \in ColumnSets}
        : n \in 0..m}

\* The caller's tables.
PriceTables == TablesUpTo(MaxBars)

\* What a strategy may return for a table of n rows: one value per row, or
\* one value too few; indexed like the table it was given (0 .. len-1).
StrategyOutputs(n) ==
    {Series(RangeIndex(Len(v)), v) :
        v \in SeqsOf(SignalValues, n) \cup (IF n > 0 THEN SeqsOf(SignalValues, n - 1) ELSE {})}

\* The values a long/flat strategy emits: (fast_ema > slow_ema).astype(int).
BinaryValues == {Num(0), Num(1)}

\* What a long/flat strategy may return for a table of n rows.
BinaryOutputs(n) ==
    {Series(RangeIndex(Len(v)), v) :
        v \in SeqsOf(BinaryValues, n) \cup (IF n > 0 THEN SeqsOf(BinaryValues, n - 1) ELSE {})}

\* ------------------------------------------------------------ DataFrame
Column(frame, name) == Series(frame.index, [i \in DOMAIN frame.rows |-> frame.rows[i][name]])

\* Stable insertion of item x = <<label, row>> by row.date (the sort numpy
\* runs on arrays this short is an insertion sort).
RECURSIVE InsertByDate(_, _)
InsertByDate(sorted, x) ==
    IF sorted = <<>> THEN <<x>>
    ELSE LET last == sorted[Len(sorted)]
         IN  IF last[2].date[2] <= x[2].date[2]
             THEN Append(sorted, x)
             ELSE Append(InsertByDate(SubSeq(sorted, 1, Len(sorted) - 1), x), last)

RECURSIVE SortItems(_)
SortItems(items) ==
    IF items = <<>> THEN <<>>
    ELSE InsertByDate(SortItems(SubSeq(items, 1, Len(items) - 1)), items[Len(items)])

\* DataFrame.sort_values("date"): a new frame, rows ascending by date, each
\* row keeping its label.
sort_values(frame) ==
    LET items == SortItems([i \in DOMAIN frame.rows |-> <<frame.index[i], frame.rows[i]>>])
    IN  [index   |-> [i \in DOMAIN items |-> items[i][1]],
         columns |-> frame.columns,
         rows    |-> [i \in DOMAIN items |-> items[i][2]]]

\* DataFrame.reset_index(drop=True)
reset_index(frame) == [frame EXCEPT !.index = RangeIndex(Len(frame.rows))]

\* ------------------------------------------------------------ engine
\* Trading days per year used to annualise.
TradingDays == 252

\* line 90: the rows of the trade frame with position_change > 0
EntryRows(change) ==
    SelectSeq([i \in DOMAIN change.values |-> i], LAMBDA i : RLt(Zero, change.values[i]))

\* line 91 with <= in place of <: unchanged bars count as exits too.
ExitRowsNonPositive(change) ==
    SelectSeq([i \in DOMAIN change.values |-> i], LAMBDA i : RLe(change.values[i], Zero))

\* line 91: the rows of the trade frame with position_change < 0
ExitRows(change) ==
    SelectSeq([i \in DOMAIN change.values |-> i], LAMBDA i : RLt(change.values[i], Zero))

\* Stable insertion of a trade by entry_date.
RECURSIVE InsertTrade(_, _)
InsertTrade(sorted, t) ==
    IF sorted = <<>> THEN <<t>>
    ELSE LET last == sorted[Len(sorted)]
         IN  IF last.entry_date[2] <= t.entry_date[2]
             THEN Append(sorted, t)
             ELSE Append(InsertTrade(SubSeq(sorted, 1, Len(sorted) - 1), t), last)

RECURSIVE SortTrades(_)
SortTrades(ts) ==
    IF ts = <<>> THEN <<>>
    ELSE InsertTrade(SortTrades(SubSeq(ts, 1, Len(ts) - 1)), ts[Len(ts)])

\* The exit rows the entries are joined with: the real exits (is_open False),
\* then, when they are fewer than the entries, one synthetic exit per missing
\* one, taken from the last row of the frame (is_open True).
exit_frame(exits, nEntries, last_date, last_price) ==
    LET closed == [k \in DOMAIN exits |->
                      [exit_date |-> exits[k].date, exit_price |-> exits[k].price,
                       is_open |-> FALSE]]
    IN  IF Len(closed) < nEntries
        THEN closed \o [k \in 1..(nEntries - Len(closed)) |->
                           [exit_date |-> last_date, exit_price |-> last_price,
                            is_open |-> TRUE]]
        ELSE closed

\* BacktestEngine._build_trades(positions, prices): the ledger, a sequence of
\* trades (empty when there is no entry).
build_trades(positions, frame) ==
    IF Len(positions.values) = 0 THEN <<>>
    ELSE
    LET n == Len(frame.rows)
        date(i) == IF "date" \in frame.columns THEN frame.rows[i].date ELSE IntLabel(i - 1)
        position == Series(frame.index, positions.values)
        position_change == fillna_series(diff(position), position)
        price_col == IF "open" \in frame.columns THEN "open" ELSE "close"
        price(i) == Num(frame.rows[i][price_col])
        entryRows == EntryRows(position_change)
        exitRows  == ExitRows(position_change)
        entries == [k \in DOMAIN entryRows |->
                       [date |-> date(entryRows[k]), price |-> price(entryRows[k])]]
        exits   == [k \in DOMAIN exitRows |->
                       [date |-> date(exitRows[k]), price |-> price(exitRows[k])]]
        xf == exit_frame(exits, Len(entries), date(n), price(n))
        \* trades.join(exit_frame): a left join on the row number; the exits
        \* beyond the last entry are dropped.
        joined == [k \in DOMAIN entries |->
                      [entry_date     |-> entries[k].date,
                       entry_price    |-> entries[k].price,
                       exit_date      |-> xf[k].exit_date,
                       exit_price     |-> xf[k].exit_price,
                       return_pct     |-> RSub(RDiv(xf[k].exit_price, entries[k].price), One),
                       holding_period |-> xf[k].exit_date[2] - entries[k].date[2],
                       status         |-> IF xf[k].is_open THEN "OPEN" ELSE "CLOSED"]]
    IN  SortTrades(joined)

\* BacktestEngine._annualized_return: compounded ** (252 / num_days) - 1,
\* kept as its base and exponent.
annualized_return(daily_returns) ==
    IF Len(daily_returns.values) = 0 THEN [base |-> One, exponent |-> Zero]
    ELSE [base |-> prod(ScalarAdd(One, daily_returns)),
          exponent |-> Frac(TradingDays, Len(daily_returns.values))]

\* BacktestEngine._annualized_volatility: std(ddof=0) * sqrt(252), floored
\* to 0.0 for an empty series or a zero deviation.
annualized_volatility(daily_returns) ==
    IF Len(daily_returns.values) = 0 THEN SurdZero
    ELSE LET daily_var == variance(daily_returns)
         IN  IF daily_var # Zero THEN Surd(1, RMul(daily_var, Num(TradingDays))) ELSE SurdZero

\* _sharpe_ratio without its zero-volatility guard.
sharpe_ratio_unguarded(daily_returns, volatility) ==
    IF Len(daily_returns.values) = 0 THEN SurdZero
    ELSE LET m == RMul(mean(daily_returns), Num(TradingDays))
         IN  Surd(Sign(m[1]), RDiv(RMul(m, m), volatility.sq))

\* BacktestEngine._sharpe_ratio: mean * 252 / volatility, 0.0 for an empty
\* series or a zero volatility.
sharpe_ratio(daily_returns, volatility) ==
    IF Len(daily_returns.values) = 0 \/ volatility = SurdZero THEN SurdZero
    ELSE LET m == RMul(mean(daily_returns), Num(TradingDays))
         IN  Surd(Sign(m[1]), RDiv(RMul(m, m), volatility.sq))

\* _max_drawdown measured against the first equity value instead of the
\* running peak.
max_drawdown_from_start(equity_curve) ==
    min(SeriesDivMinusOne(equity_curve,
                          Series(equity_curve.index,
                                 [i \in DOMAIN equity_curve.values |-> equity_curve.values[1]])))

\* BacktestEngine._max_drawdown
max_drawdown(equity_curve) ==
    min(SeriesDivMinusOne(equity_curve, cummax(equity_curve)))

\* ------------------------------------------------------------ state
VARIABLES
    pc,                \* the step run() is at; "done" returned, "raised" raised
    prices,            \* the caller's price table (the object passed to run)
    initial_capital,   \* BacktestEngine.initial_capital
    frame,             \* run's local `prices` after line 36
    calls,             \* number of generate_signals invocations so far
    received,          \* the table generate_signals was given
    returned,          \* the signal Series as the strategy returned it
    signals,           \* the same Series object as run() holds it now
    returns,           \* PerBarReturn
    positions,         \* Position
    strategy_returns,  \* StrategyReturn
    equity_curve,
    trades,
    result,            \* the BacktestResult, once returned
    error              \* the exception raised, if any

vars == <<pc, prices, initial_capital, frame, calls, received, returned, signals,
          returns, positions, strategy_returns, equity_curve, trades, result, error>>

NoSeries == Series(<<>>, <<>>)

NoFrame == [index |-> <<>>, columns |-> {}, rows |-> <<>>]

NoResult == <<>>

NoError == [kind |-> "", line |-> 0]

Raise(kind, line) == pc' = "raised" /\ error' = [kind |-> kind, line |-> line]

Init ==
    /\ pc = "validate"
    /\ prices \in PriceTables
    /\ initial_capital \in InitialCapitals
    /\ frame = NoFrame
    /\ calls = 0
    /\ received = NoFrame
    /\ returned = NoSeries
    /\ signals = NoSeries
    /\ returns = NoSeries
    /\ positions = NoSeries
    /\ strategy_returns = NoSeries
    /\ equity_curve = NoSeries
    /\ trades = <<>>
    /\ result = NoResult
    /\ error = NoError

\* DataFrame.empty
IsEmpty(table) == Len(table.rows) = 0

\* lines 33-34: if prices.empty: raise ValueError("Price data is empty")
Validate ==
    /\ pc = "validate"
    /\ IF IsEmpty(prices)
       THEN Raise("ValueError", 34)
       ELSE pc' = "sort" /\ error' = error
    /\ UNCHANGED <<prices, initial_capital, frame, calls, received, returned, signals,
                   returns, positions, strategy_returns, equity_curve, trades, result>>

\* line 36: prices = prices.sort_values("date").reset_index(drop=True)
\* sort_values raises KeyError when there is no date column.
\* line 36 without reset_index: the sorted rows keep their old labels.
SortedPricesKeepingLabels(table) == sort_values(table)

SortedPrices(table) == reset_index(sort_values(table))

Sort ==
    /\ pc = "sort"
    /\ IF "date" \notin prices.columns
       THEN Raise("KeyError", 36) /\ frame' = frame
       ELSE pc' = "generate" /\ error' = error /\ frame' = SortedPrices(prices)
    /\ UNCHANGED <<prices, initial_capital, calls, received, returned, signals,
                   returns, positions, strategy_returns, equity_curve, trades, result>>

\* line 37: signals = strategy.generate_signals(prices)
Generate ==
    /\ pc = "generate"
    /\ \E s \in StrategyOutputs(Len(frame.rows)) :
          /\ signals' = s
          /\ returned' = s
    /\ calls' = calls + 1
    /\ received' = frame
    /\ pc' = "check"
    /\ UNCHANGED <<prices, initial_capital, frame, returns, positions, strategy_returns,
                   equity_curve, trades, result, error>>

\* lines 41-42: if "date" in prices.columns: signals.index = prices["date"]
\* (an assignment to the index of the strategy's own Series object)
IndexedSignals(sig, table) ==
    IF "date" \in table.columns THEN Series(Column(table, "date").values, sig.values) ELSE sig

\* lines 38-42
CheckLength ==
    /\ pc = "check"
    /\ IF Len(signals.values) # Len(frame.rows)
       THEN Raise("ValueError", 39) /\ signals' = signals
       ELSE pc' = "simulate" /\ error' = error /\ signals' = IndexedSignals(signals, frame)
    /\ UNCHANGED <<prices, initial_capital, frame, calls, received, returned,
                   returns, positions, strategy_returns, equity_curve, trades, result>>

\* line 44: returns = prices["close"].pct_change().fillna(0.0)
PerBarReturn(table) ==
    LET close == Column(table, "close")
    IN  fillna(pct_change(Series(close.index, [i \in DOMAIN close.values |-> Num(close.values[i])])),
               Zero)

\* line 45: positions = signals.shift(1).fillna(0.0)
Position(sig) == fillna(shift(sig), Zero)

\* line 46: strategy_returns = positions * returns
StrategyReturn(pos, ret) == SeriesMul(pos, ret)

\* line 54: equity_curve = (1 + strategy_returns).cumprod() * self.initial_capital
EquityCurve(sr, capital) == ScalarMul(cumprod(ScalarAdd(One, sr)), capital)

\* lines 44-54.  prices["close"] raises KeyError without a close column;
\* lines 48-52 assign the date column as the index of the three series, and an
\* index of another length than the series raises ValueError.
Simulate ==
    /\ pc = "simulate"
    /\ IF "close" \notin frame.columns
       THEN /\ Raise("KeyError", 44)
            /\ UNCHANGED <<returns, positions, strategy_returns, equity_curve>>
       ELSE LET ret == PerBarReturn(frame)
                pos == Position(signals)
                sr  == StrategyReturn(pos, ret)
                idx == Column(frame, "date").values
            IN  IF "date" \in frame.columns
                THEN /\ returns' = Series(idx, ret.values)
                     /\ positions' = Series(idx, pos.values)
                     /\ IF Len(sr.values) # Len(idx)
                        THEN /\ Raise("ValueError", 52)
                             /\ strategy_returns' = sr
                             /\ equity_curve' = equity_curve
                        ELSE /\ pc' = "trades" /\ error' = error
                             /\ strategy_returns' = Series(idx, sr.values)
                             /\ equity_curve' = EquityCurve(Series(idx, sr.values), initial_capital)
                ELSE /\ pc' = "trades" /\ error' = error
                     /\ returns' = ret
                     /\ positions' = pos
                     /\ strategy_returns' = sr
                     /\ equity_curve' = EquityCurve(sr, initial_capital)
    /\ UNCHANGED <<prices, initial_capital, frame, calls, received, returned, signals,
                   trades, result>>

\* line 56: trades = self._build_trades(positions, prices)
BuildTrades ==
    /\ pc = "trades"
    /\ trades' = build_trades(positions, frame)
    /\ pc' = "metrics"
    /\ UNCHANGED <<prices, initial_capital, frame, calls, received, returned, signals,
                   returns, positions, strategy_returns, equity_curve, result, error>>

\* line 57: total_return = equity_curve.iloc[-1] / self.initial_capital - 1
total_return(curve, capital) ==
    RSub(RDiv(curve.values[Len(curve.values)], capital), One)

\* lines 57-73: the metrics and the BacktestResult
Metrics ==
    /\ pc = "metrics"
    /\ LET volatility == annualized_volatility(strategy_returns)
       IN  result' = [equity_curve      |-> equity_curve,
                      trades            |-> trades,
                      total_return      |-> total_return(equity_curve, initial_capital),
                      annualized_return |-> annualized_return(strategy_returns),
                      max_drawdown      |-> max_drawdown(equity_curve),
                      signals           |-> signals,
                      daily_returns     |-> strategy_returns,
                      volatility        |-> volatility,
                      sharpe_ratio      |-> sharpe_ratio(strategy_returns, volatility)]
    /\ pc' = "done"
    /\ UNCHANGED <<prices, initial_capital, frame, calls, received, returned, signals,
                   returns, positions, strategy_returns, equity_curve, trades, error>>

Next ==
    \/ Validate
    \/ Sort
    \/ Generate
    \/ CheckLength
    \/ Simulate
    \/ BuildTrades
    \/ Metrics

Spec == Init /\ [][Next]_vars

\* run with a long/flat strategy, on tables of up to MaxBinaryBars rows.
InitBinary ==
    /\ pc = "validate"
    /\ prices \in TablesUpTo(MaxBinaryBars)
    /\ initial_capital \in InitialCapitals
    /\ frame = NoFrame
    /\ calls = 0
    /\ received = NoFrame
    /\ returned = NoSeries
    /\ signals = NoSeries
    /\ returns = NoSeries
    /\ positions = NoSeries
    /\ strategy_returns = NoSeries
    /\ equity_curve = NoSeries
    /\ trades = <<>>
    /\ result = NoResult
    /\ error = NoError

\* line 37 with a strategy whose signal is 0 or 1 on every bar
GenerateBinary ==
    /\ pc = "generate"
    /\ \E s \in BinaryOutputs(Len(frame.rows)) :
          /\ signals' = s
          /\ returned' = s
    /\ calls' = calls + 1
    /\ received' = frame
    /\ pc' = "check"
    /\ UNCHANGED <<prices, initial_capital, frame, returns, positions, strategy_returns,
                   equity_curve, trades, result, error>>

NextBinary ==
    \/ Validate
    \/ Sort
    \/ GenerateBinary
    \/ CheckLength
    \/ Simulate
    \/ BuildTrades
    \/ Metrics

SpecBinary == InitBinary /\ [][NextBinary]_vars

\* ------------------------------------------------------------ claims
Terminated == pc \in {"done", "raised"}

NBars == Len(prices.rows)

UniqueDates(table) ==
    \A i, j \in DOMAIN table.rows : i # j => table.rows[i].date # table.rows[j].date

\* A price table as the data model describes it: at least one bar, a date
\* and a close column, no date twice.
ValidTable(table) ==
    /\ ~IsEmpty(table)
    /\ {"date", "close"} \subseteq table.columns
    /\ UniqueDates(table)

\* The strategy was invoked and answered with one value per bar.
SameLength == calls > 0 /\ Len(returned.values) = NBars

\* The signal that is 1 on bars a .. b (0-based) and 0 on every other bar.
LongOn(a, b, n) == [i \in 1..n |-> IF a + 1 <= i /\ i <= b + 1 THEN Num(1) ELSE Num(0)]

\* The date of bar k (0-based) of the table in date order.
BarDate(k) == frame.rows[k + 1].date

\* C1: for a table with date, open and close columns and a signal that is 1
\* exactly on bars a..b (b+2 <= n-1), run returns a ledger of exactly one
\* trade, CLOSED, entered on bar a+1, exited on bar b+2, holding_period > 0.
C1_ClosedTradeLag ==
    \A a, b \in 0..MaxBars :
        ( /\ Terminated
          /\ ValidTable(prices) /\ "open" \in prices.columns
          /\ a <= b /\ b + 2 <= NBars - 1
          /\ calls > 0 /\ returned.values = LongOn(a, b, NBars) )
        => ( /\ pc = "done"
             /\ Len(result.trades) = 1
             /\ result.trades[1].status = "CLOSED"
             /\ result.trades[1].entry_date = BarDate(a + 1)
             /\ result.trades[1].exit_date = BarDate(b + 2)
             /\ result.trades[1].holding_period > 0 )

\* PositionChange of the position series run computed.
PositionChange(i) ==
    IF i = 1 THEN positions.values[1] ELSE RSub(positions.values[i], positions.values[i - 1])

NEntries == Cardinality({i \in DOMAIN positions.values : RLt(Zero, PositionChange(i))})

NExits == Cardinality({i \in DOMAIN positions.values : RLt(PositionChange(i), Zero)})

LastPrice ==
    Num(IF "open" \in frame.columns THEN frame.rows[NBars].open ELSE frame.rows[NBars].close)

\* The ledger's open trades are exactly its last NEntries - NExits trades,
\* each marked to the final bar.
OpenTradesAreTrailing(ledger) ==
    NEntries > NExits =>
        /\ Len(ledger) = NEntries
        /\ \A k \in DOMAIN ledger :
              IF k > NExits
              THEN /\ ledger[k].status = "OPEN"
                   /\ ledger[k].exit_date = BarDate(NBars - 1)
                   /\ ledger[k].exit_price = LastPrice
                   /\ ledger[k].return_pct = RSub(RDiv(LastPrice, ledger[k].entry_price), One)
              ELSE ledger[k].status = "CLOSED"

\* The signal that is 0 before bar a and 1 from bar a onward.
LongFrom(a, n) == [i \in 1..n |-> IF i >= a + 1 THEN Num(1) ELSE Num(0)]

\* C2: when entries outnumber exits, exactly the trailing entries - exits
\* trades are OPEN, with the final bar's date and price as their exit and a
\* defined return_pct, every other trade is CLOSED; and a signal that is 0
\* before bar a and 1 from a onward (a <= n-2) yields exactly one trade,
\* entered on bar a+1, OPEN.
C2_OpenTrades ==
    /\ pc = "done" => OpenTradesAreTrailing(result.trades)
    /\ \A a \in 0..MaxBars :
          ( /\ Terminated
            /\ ValidTable(prices)
            /\ a <= NBars - 2
            /\ calls > 0 /\ returned.values = LongFrom(a, NBars) )
          => ( /\ pc = "done"
               /\ Len(result.trades) = 1
               /\ result.trades[1].entry_date = BarDate(a + 1)
               /\ result.trades[1].status = "OPEN" )

\* C3: for a non-empty table and a signal of the same length, the result has
\* one equity value and one strategy return per price bar, in date order.
C3_LengthPreservation ==
    (Terminated /\ ValidTable(prices) /\ SameLength)
    => ( /\ pc = "done"
         /\ Len(result.equity_curve.values) = NBars
         /\ Len(result.daily_returns.values) = NBars
         /\ result.equity_curve.index = [i \in 1..NBars |-> BarDate(i - 1)]
         /\ result.daily_returns.index = [i \in 1..NBars |-> BarDate(i - 1)] )

\* C4: a non-empty table with a close column (date and open optional) and a
\* signal of the same length never makes run raise.
C4_NoFurtherErrors ==
    ( /\ Terminated
      /\ ~IsEmpty(prices) /\ "close" \in prices.columns
      /\ calls > 0 => Len(returned.values) = NBars )
    => pc = "done"

\* What run has computed so far is nothing.
NothingComputed ==
    /\ returns = NoSeries /\ positions = NoSeries /\ strategy_returns = NoSeries
    /\ equity_curve = NoSeries /\ trades = <<>> /\ result = NoResult

\* C5: an empty table, a signal of another length and a missing close column
\* (of a table that has its date column) are all rejected with the one input
\* error kind, the engine's ValueError, before anything is computed.
C5_EagerRejection ==
    ( /\ Terminated
      /\ \/ IsEmpty(prices)
         \/ calls > 0 /\ Len(returned.values) # NBars
         \/ "close" \notin prices.columns /\ "date" \in prices.columns )
    => ( /\ pc = "raised"
         /\ error.kind = "ValueError"
         /\ NothingComputed )

\* Position and PerBarReturn as the data model defines them, from the close
\* column of the sorted table and the signal the strategy returned (i and k
\* are 1-based bar numbers).
SpecPosition(k) == IF k = 1 THEN Zero ELSE returned.values[k - 1]

SpecPerBarReturn(k) ==
    IF k = 1 THEN Zero
    ELSE RSub(RDiv(Num(frame.rows[k].close), Num(frame.rows[k - 1].close)), One)

RECURSIVE SpecGrowth(_)
SpecGrowth(i) ==
    IF i = 0 THEN One
    ELSE RMul(SpecGrowth(i - 1), RAdd(One, RMul(SpecPosition(i), SpecPerBarReturn(i))))

\* C6: equity_curve[i] = initial_capital * prod_{k<=i} (1 + Position[k] *
\* PerBarReturn[k]) on every bar of every valid input, so equity_curve[0] =
\* initial_capital and total_return = equity_curve[last]/initial_capital - 1.
C6_EquityCompounding ==
    (Terminated /\ ValidTable(prices) /\ SameLength)
    => ( /\ pc = "done"
         /\ Len(result.equity_curve.values) = NBars
         /\ \A i \in 1..NBars :
               result.equity_curve.values[i] = RMul(initial_capital, SpecGrowth(i))
         /\ result.equity_curve.values[1] = initial_capital
         /\ result.total_return = RSub(SpecGrowth(NBars), One) )

NonDecreasing(vals) == \A i \in 1..(Len(vals) - 1) : RLe(vals[i], vals[i + 1])

DrawdownSign ==
    /\ RLe(result.max_drawdown, Zero)
    /\ result.max_drawdown = Zero <=> NonDecreasing(result.equity_curve.values)

AllZero(vals) == \A i \in DOMAIN vals : vals[i] = Zero

\* C8: an all-zero signal on a non-empty price series gives an empty ledger,
\* an equity curve equal to initial_capital on every bar and total_return 0.
C8_FlatSeries ==
    (Terminated /\ ValidTable(prices) /\ SameLength /\ AllZero(returned.values))
    => ( /\ pc = "done"
         /\ result.trades = <<>>
         /\ Len(result.equity_curve.values) = NBars
         /\ \A i \in 1..NBars : result.equity_curve.values[i] = initial_capital
         /\ result.total_return = Zero )

\* C9: run never changes the caller's price table, nor the Series object the
\* strategy returned (values and index).
C9_NoInputMutation ==
    [][prices' = prices /\ (calls > 0 => signals' = signals)]_vars

IsConstant(vals) == \A i, j \in DOMAIN vals : vals[i] = vals[j]

Constant(c, n) == Series(RangeIndex(n), [i \in 1..n |-> c])

NonNegative(v) == v.sign \in {0, 1} /\ RLe(Zero, v.sq)

AscendingByDate(table) ==
    \A i \in 1..(Len(table.rows) - 1) : table.rows[i].date[2] <= table.rows[i + 1].date[2]

\* C11: generate_signals is invoked exactly once per successful run, never
\* for an empty table, on the price table sorted ascending by date under a
\* dense 0-based index; the length check follows that one invocation and
\* precedes every return, position, equity value and trade.
C11_RunOrdering ==
    /\ calls <= 1
    /\ pc = "done" => calls = 1
    /\ IsEmpty(prices) => calls = 0
    /\ calls > 0 =>
          /\ AscendingByDate(received)
          /\ received.index = RangeIndex(NBars)
          /\ Len(received.rows) = NBars
          /\ Range(received.rows) = Range(prices.rows)
          /\ received.columns = prices.columns
    /\ pc \in {"validate", "sort", "generate", "check"} => NothingComputed
    /\ ~NothingComputed => calls = 1 /\ Len(returned.values) = NBars
    /\ (calls > 0 /\ Len(returned.values) # NBars) => pc \in {"check", "raised"}

\* A completed run on a table the caller passed in descending date order.
C11_Witness ==
    /\ pc = "done"
    /\ calls = 1
    /\ NBars > 1
    /\ ~AscendingByDate(prices)
    /\ received # prices

\* C12: for any real-valued signal every trade of the ledger is a forward
\* holding interval: exit_date >= entry_date and holding_period >= 0.
C12_ForwardIntervals ==
    pc = "done" =>
        \A k \in DOMAIN result.trades :
            /\ result.trades[k].exit_date[2] >= result.trades[k].entry_date[2]
            /\ result.trades[k].holding_period >= 0

\* Position at the final bar: signal[n-2], or 0 for a single bar.
FinalPosition == IF NBars = 1 THEN Zero ELSE returned.values[NBars - 1]

HasOpenTrade(ledger) == \E k \in DOMAIN ledger : ledger[k].status = "OPEN"

\* C13: for any real-valued signal the ledger holds an OPEN trade exactly
\* when the Position at the final bar is nonzero.
C13_OpenMeansHeld ==
    pc = "done" => (HasOpenTrade(result.trades) <=> FinalPosition # Zero)

\* The bars on which the position changes, in bar order.
ChangeBars ==
    SelectSeq([i \in DOMAIN positions.values |-> i], LAMBDA i : PositionChange(i) # Zero)

\* Entries and exits alternate, the first change being an entry.
Alternating ==
    \A k \in DOMAIN ChangeBars :
        IF k % 2 = 1 THEN RLt(Zero, PositionChange(ChangeBars[k]))
                     ELSE RLt(PositionChange(ChangeBars[k]), Zero)

BinarySignal == \A i \in DOMAIN returned.values : returned.values[i] \in BinaryValues

\* C14: for a signal with values in {0, 1} entries and exits alternate,
\* starting with an entry; entries minus exits is 0 or 1; at most one trade
\* is OPEN and it is the last one; a CLOSED trade's exit_date is strictly
\* after its entry_date; trade k exits no later than trade k+1 enters; the
\* ledger ascends by entry_date.
C14_BinaryLedger ==
    (pc = "done" /\ BinarySignal) =>
        LET ledger == result.trades
        IN  /\ Alternating
            /\ NEntries - NExits \in {0, 1}
            /\ Len(ledger) = NEntries
            /\ \A k \in DOMAIN ledger :
                  /\ ledger[k].status = "OPEN" => k = Len(ledger) /\ NEntries - NExits = 1
                  /\ ledger[k].status = "CLOSED" => ledger[k].exit_date[2] > ledger[k].entry_date[2]
            /\ \A k \in 1..(Len(ledger) - 1) :
                  /\ ledger[k].exit_date[2] <= ledger[k + 1].entry_date[2]
                  /\ ledger[k].entry_date[2] <= ledger[k + 1].entry_date[2]

\* A completed run whose ledger is a CLOSED trade followed by an OPEN one.
C14_Witness ==
    /\ pc = "done"
    /\ BinarySignal
    /\ Len(result.trades) = 2
    /\ result.trades[1].status = "CLOSED"
    /\ result.trades[2].status = "OPEN"

====
